---- MODULE Spec2Model ----
(***************************************************************************)
(* Model of apollo-link-persisted-queries (src/src/index.ts).              *)
(*                                                                         *)
(* createPersistedQueryLink creates a link instance, which owns the        *)
(* capability flag supportsPersistedQueries and its own slot               *)
(* (hashesChildKey) in the hash table kept on every document object.  A    *)
(* logical request is one operation passed through a link: the request     *)
(* handler attaches the hash, the caller subscribes to the observable the   *)
(* handler returned, the operation is forwarded, and the handler/retry      *)
(* closure reacts to what the downstream link delivers.                     *)
(***************************************************************************)
EXTENDS Integers, Sequences, FiniteSets, TLC

\* ---------------------------------------------------------------- bounds
\* link instances created, requests in flight at a time
MaxLinks == 2
NumReqs == 2
\* size of a scenario: see Work
MaxWork == 13
\* size of a scenario of several requests through one link: see Load
MaxLoad == 14

Reqs == 1..NumReqs
Links == 0..(MaxLinks - 1)

\* ------------------------------------------------------------- documents
\* the DocumentNode objects the callers use: one without a mutation definition
\* (queries, subscriptions), one with a mutation definition
Docs == {"query", "mutation"}

definitionIsMutation(d) == d = "mutation"

\* variant that takes every operation for a query
operationIsAnything(d) == TRUE

\* Note that this also returns true for subscriptions.
operationIsQuery(d) == ~definitionIsMutation(d)

\* ------------------------------------------------------------- constants
VERSION == 1

NotFound == "PersistedQueryNotFound"
NotSupported == "PersistedQueryNotSupported"

\* response.errors / graphQLErrors: undefined, or a list of errors (kept as
\* the set of their messages)
NoErrors == [defined |-> FALSE, msgs |-> {}]
Errs(S) == [defined |-> TRUE, msgs |-> S]

ResultErrors ==
  {NoErrors, Errs({NotFound}), Errs({NotSupported}), Errs({"not logged in"}),
   Errs({NotFound, "not logged in"})}

\* networkError.result.errors of the errors the downstream link raises: none,
\* or the errors of the body of a response with a failing status
NetworkResultErrors == {NoErrors, Errs({NotSupported})}

\* context.response.status as the downstream link leaves it; 0: no response.
\* The downstream link is an HTTP link (README, Usage): it delivers a result
\* only for a response with a 2xx status, and raises a network error
\* otherwise (no response at all, or a response with another status).
ResultStatuses == {200}
ErrorStatuses == {0, 400, 404, 500}

\* context.fetchOptions
NoFetchOptions == [defined |-> FALSE, method |-> "", mode |-> ""]
EmptyFetchOptions == [defined |-> TRUE, method |-> "", mode |-> ""]
CallerFetchOptions ==
  {NoFetchOptions, [defined |-> TRUE, method |-> "POST", mode |-> "cors"]}

\* operation.extensions.persistedQuery
NoPersistedQuery == [version |-> 0, sha256Hash |-> <<>>]

\* the value generateHash of link l returns for document d
generateHash(l, d) == <<l, d>>

\* the options links are created with: createPersistedQueryLink(), and
\* createPersistedQueryLink({ useGETForHashedQueries: true, disable })
LinkOptions ==
  {[useGETForHashedQueries |-> FALSE, customDisable |-> FALSE],
   [useGETForHashedQueries |-> TRUE, customDisable |-> TRUE]}

\* what a generateHash call can do: return, throw an Error, throw a falsy value
HashOutcomes == {"return", "throw Error", "throw 0"}

VARIABLES
  nextHashesChildKey,     \* links created so far; link l has key 'forLink' + l
  useGETForHashedQueries, \* option, per link
  customDisable,          \* option: TRUE when the caller supplied disable
  supportsPersistedQueries,
  hashes,                 \* query[hashesKey][hashesChildKey]
  pc,                     \* position of each logical request
  link, query,            \* the link and the document of each request
  givenFetchOptions,      \* context.fetchOptions as the caller set it
  persistedQuery,         \* operation.extensions.persistedQuery
  context,                \* operation context
  hashError,
  generateHashCalls,      \* generateHash invocations made for the request
  subscription,           \* 0: undefined, k: subscription of attempt k
  retried,
  originalFetchOptions,
  setFetchOptions,
  closed,                 \* the caller's subscription is closed
  forwards,               \* the attempts forwarded downstream
  received                \* what the caller's observer received

linkVars ==
  <<nextHashesChildKey, useGETForHashedQueries, customDisable,
    supportsPersistedQueries, hashes>>
opVars ==
  <<link, query, givenFetchOptions, persistedQuery, context, hashError,
    generateHashCalls>>
subVars ==
  <<subscription, retried, originalFetchOptions, setFetchOptions, closed,
    forwards, received>>
vars == <<linkVars, pc, opVars, subVars>>

\* the context of an operation: http says whether context.http is set, and
\* includeQuery and includeExtensions are its fields
NoContext ==
  [http |-> FALSE, includeQuery |-> FALSE, includeExtensions |-> FALSE,
   fetchOptions |-> NoFetchOptions]

Init ==
  /\ nextHashesChildKey = 0
  /\ useGETForHashedQueries = [l \in Links |-> FALSE]
  /\ customDisable = [l \in Links |-> FALSE]
  /\ supportsPersistedQueries = [l \in Links |-> TRUE]
  /\ hashes = [d \in Docs |-> [l \in Links |-> <<>>]]
  /\ pc = [r \in Reqs |-> "idle"]
  /\ link = [r \in Reqs |-> 0]
  /\ query = [r \in Reqs |-> "query"]
  /\ givenFetchOptions = [r \in Reqs |-> NoFetchOptions]
  /\ persistedQuery = [r \in Reqs |-> NoPersistedQuery]
  /\ context = [r \in Reqs |-> NoContext]
  /\ hashError = [r \in Reqs |-> "undefined"]
  /\ generateHashCalls = [r \in Reqs |-> 0]
  /\ subscription = [r \in Reqs |-> 0]
  /\ retried = [r \in Reqs |-> FALSE]
  /\ originalFetchOptions = [r \in Reqs |-> NoFetchOptions]
  /\ setFetchOptions = [r \in Reqs |-> FALSE]
  /\ closed = [r \in Reqs |-> FALSE]
  /\ forwards = [r \in Reqs |-> <<>>]
  /\ received = [r \in Reqs |-> <<>>]

\* ------------------------------------------------------ pure definitions
\* a value is truthy in a JavaScript condition
Truthy(v) == v \notin {"undefined", "0"}

\* variant of the default policy that ignores PersistedQueryNotSupported
DisableOnStatusOnly(graphQLErrors, status) ==
  status # 0 /\ (status = 400 \/ status = 500)

\* variant of the default policy that ignores the response status
DisableOnNotSupportedOnly(graphQLErrors, status) ==
  graphQLErrors.defined /\ NotSupported \in graphQLErrors.msgs

\* variant of the default policy that disables on every failing status
DisableOnAnyFailingStatus(graphQLErrors, status) ==
  \/ graphQLErrors.defined /\ NotSupported \in graphQLErrors.msgs
  \/ status >= 400

\* defaultOptions.disable, given graphQLErrors and the status of
\* operation.getContext().response (0: no response)
DefaultDisable(graphQLErrors, status) ==
  \/ graphQLErrors.defined /\ NotSupported \in graphQLErrors.msgs
  \/ status # 0 /\ (status = 400 \/ status = 500)

\* variant in which a caller-supplied disable is consulted together with the
\* default policy
DisableOrDefault(custom, b, graphQLErrors, status) ==
  IF custom
  THEN b \/ DefaultDisable(graphQLErrors, status)
  ELSE DefaultDisable(graphQLErrors, status)

\* the disable option of a link: Object.assign({}, defaultOptions, options);
\* b is the answer of a caller-supplied disable
Disable(custom, b, graphQLErrors, status) ==
  IF custom THEN b ELSE DefaultDisable(graphQLErrors, status)

\* (response && response.errors) || networkError
HasErrors(o) ==
  \/ o.type = "next" /\ o.errors.defined
  \/ o.type = "error"

\* graphQLErrors of the disable payload
GraphQLErrors(o) == IF o.type = "next" THEN o.errors ELSE NoErrors

HasNotFound(o) ==
  o.type = "next" /\ o.errors.defined /\ NotFound \in o.errors.msgs

\* variant that forwards again only after PersistedQueryNotFound
ShouldRetryNotFoundOnly(o, supports) == HasNotFound(o)

\* variant that forwards again only when the capability is lost
ShouldRetryUnsupportedOnly(o, supports) == ~supports

\* variant that forwards again after every network error
ShouldRetryOnAnyError(o, supports) ==
  HasNotFound(o) \/ ~supports \/ o.type = "error"

\* variant that forwards again after every result with errors
ShouldRetryOnErrors(o, supports) ==
  HasNotFound(o) \/ ~supports \/ (o.type = "next" /\ o.errors.defined)

\* the condition under which the operation is forwarded again
ShouldRetry(o, supports) == HasNotFound(o) \/ ~supports

\* variant in which retried belongs to the link: an outcome is classified only
\* when no request in flight has had one classified
ClassifyOncePerLink(wasRetried, o) ==
  ~(\E q \in Reqs : retried[q]) /\ HasErrors(o)

\* variant that classifies the first outcome, with errors or without
ClassifyFirstOutcome(wasRetried, o) == ~wasRetried

\* variant that classifies every network error, retried or not
ClassifyEveryFailure(wasRetried, o) ==
  HasErrors(o) /\ (~wasRetried \/ o.type = "error")

\* variant without the retried guard
ClassifyAgain(wasRetried, o) == HasErrors(o)

\* !retried && ((response && response.errors) || networkError)
Classify(wasRetried, o) == ~wasRetried /\ HasErrors(o)

\* variant that leaves the fetchOptions of attempt 1 in the context
KeepFetchOptions(ctx, wasSet, original) == ctx

\* if (setFetchOptions) operation.setContext({ fetchOptions: ... })
RestoreFetchOptions(ctx, wasSet, original) ==
  IF wasSet THEN [ctx EXCEPT !.fetchOptions = original] ELSE ctx

\* ({ fetchOptions = {} }) => ...: the context's fetchOptions, {} by default
WithDefault(fetchOptions) ==
  IF fetchOptions.defined THEN fetchOptions ELSE EmptyFetchOptions

\* Object.assign({}, fetchOptions, { method: 'GET' })
ForceGET(fetchOptions) == [fetchOptions EXCEPT !.method = "GET"]

\* variant of the context of attempt 2 that never includes the extensions
RetryContextNoExtensions(ctx, supports) ==
  [ctx EXCEPT !.http = TRUE, !.includeQuery = TRUE,
              !.includeExtensions = FALSE]

\* operation.setContext({ http: { includeQuery: true, includeExtensions:
\* supportsPersistedQueries } }) of retry
RetryContext(ctx, supports) ==
  [ctx EXCEPT !.http = TRUE, !.includeQuery = TRUE,
              !.includeExtensions = supports]

\* the operation as the downstream link sees it when it is forwarded; cause
\* is the outcome retry was called with when it forwarded the operation
NoCause == [type |-> "", errors |-> NoErrors, status |-> 0]

Attempt(ctx, pq, cause) ==
  [includeQuery |-> ctx.includeQuery,
   includeExtensions |-> ctx.includeExtensions,
   fetchOptions |-> ctx.fetchOptions,
   persistedQuery |-> pq,
   cause |-> cause,
   st |-> "active",
   n |-> 0]

\* subscription.unsubscribe() on the subscription of attempt k (0: undefined)
UnsubscribeAttempt(fw, k) ==
  IF k # 0 /\ fw[k].st = "active"
  THEN [fw EXCEPT ![k].st = "unsubscribed"]
  ELSE fw

Event(type, att, errors, thrown) ==
  [type |-> type, att |-> att, errors |-> errors, thrown |-> thrown]

\* observer.next / observer.error / observer.complete of the caller's
\* observer: nothing is delivered once the caller's subscription is closed
Deliver(rcv, isClosed, ev) == IF isClosed THEN rcv ELSE Append(rcv, ev)

\* variant of retry whose cb() passes on the results only
CallbackResultsOnly(rcv, isClosed, again, ev) ==
  IF again \/ ev.type = "error" THEN rcv ELSE Deliver(rcv, isClosed, ev)

\* variant of retry that calls cb() after it has forwarded the operation again
CallbackAlways(rcv, isClosed, again, ev) == Deliver(rcv, isClosed, ev)

\* the end of retry: return after the operation is forwarded again, cb()
\* otherwise
Callback(rcv, isClosed, again, ev) ==
  IF again THEN rcv ELSE Deliver(rcv, isClosed, ev)

\* variant whose cleanup function leaves the downstream subscription open
NoCleanup(fw, sub) == fw

\* the function the observable returns: () => { if (subscription) ... }
Cleanup(fw, sub) == UnsubscribeAttempt(fw, sub)

\* variant that does not look the hash up: generateHash is called every time
getQueryHashUncached(hs, l, d, h) ==
  IF h = "return"
  THEN [called |-> TRUE,
        hashes |-> [hs EXCEPT ![d][l] = generateHash(l, d)],
        thrown |-> "", value |-> generateHash(l, d)]
  ELSE [called |-> TRUE, hashes |-> hs, thrown |-> h, value |-> <<>>]

\* variant in which every link uses the slot of link 0 in the table of hashes
getQueryHashShared(hs, l, d, h) ==
  IF hs[d][0] # <<>>
  THEN [called |-> FALSE, hashes |-> hs, thrown |-> "", value |-> hs[d][0]]
  ELSE IF h = "return"
  THEN [called |-> TRUE,
        hashes |-> [hs EXCEPT ![d][0] = generateHash(l, d)],
        thrown |-> "", value |-> generateHash(l, d)]
  ELSE [called |-> TRUE, hashes |-> hs, thrown |-> h, value |-> <<>>]

\* variant that stores a value for the document also when generateHash throws
getQueryHashStoringFailure(hs, l, d, h) ==
  IF hs[d][l] # <<>>
  THEN [called |-> FALSE, hashes |-> hs, thrown |-> "", value |-> hs[d][l]]
  ELSE IF h = "return"
  THEN [called |-> TRUE,
        hashes |-> [hs EXCEPT ![d][l] = generateHash(l, d)],
        thrown |-> "", value |-> generateHash(l, d)]
  ELSE [called |-> TRUE,
        hashes |-> [hs EXCEPT ![d][l] = <<l, "undefined">>],
        thrown |-> h, value |-> <<>>]

\* getQueryHash(query) of link l, where h is what generateHash does if it is
\* called: whether generateHash is called, the hash table afterwards, and the
\* value returned ("thrown" names what was thrown instead)
getQueryHash(hs, l, d, h) ==
  IF hs[d][l] # <<>>
  THEN [called |-> FALSE, hashes |-> hs, thrown |-> "", value |-> hs[d][l]]
  ELSE IF h = "return"
  THEN [called |-> TRUE,
        hashes |-> [hs EXCEPT ![d][l] = generateHash(l, d)],
        thrown |-> "", value |-> generateHash(l, d)]
  ELSE [called |-> TRUE, hashes |-> hs, thrown |-> h, value |-> <<>>]

\* the value caught in hashError
Thrown(h) == IF h = "throw Error" THEN "Error" ELSE "0"

\* ------------------------------------------------------------ scenario
\* the outcomes delivered to the first k attempts of fw
RECURSIVE Outs(_, _)
Outs(fw, k) == IF k = 0 THEN 0 ELSE fw[k].n + Outs(fw, k - 1)

\* the outcomes delivered to the requests 1..n
RECURSIVE TotalOuts(_)
TotalOuts(n) ==
  IF n = 0 THEN 0
  ELSE Outs(forwards[n], Len(forwards[n])) + TotalOuts(n - 1)

\* the requests in flight among 1..n
RECURSIVE InFlightUpTo(_)
InFlightUpTo(n) ==
  IF n = 0 THEN 0
  ELSE (IF pc[n] # "idle" THEN 1 ELSE 0) + InFlightUpTo(n - 1)

InFlight == InFlightUpTo(NumReqs)

\* the size of the scenario so far: a link created weighs three, a request
\* in flight six, an outcome the downstream link has delivered to a request
\* in flight two
Work == 3 * nextHashesChildKey + 6 * InFlight + 2 * TotalOuts(NumReqs)

\* a step of weight w keeps the scenario within MaxWork
Within(w) == Work + w <= MaxWork

\* requests take the free slots in order
FirstFree(r) == \A q \in Reqs : q < r => pc[q] # "idle"

\* ---------------------------------------------------------------- actions
\* createPersistedQueryLink(options)
createPersistedQueryLink(options) ==
  LET l == nextHashesChildKey
      get == options.useGETForHashedQueries
      custom == options.customDisable
  IN
  /\ nextHashesChildKey < MaxLinks
  /\ nextHashesChildKey' = nextHashesChildKey + 1
  /\ useGETForHashedQueries' = [useGETForHashedQueries EXCEPT ![l] = get]
  /\ customDisable' = [customDisable EXCEPT ![l] = custom]
  /\ supportsPersistedQueries' = [supportsPersistedQueries EXCEPT ![l] = TRUE]
  /\ UNCHANGED <<hashes, pc, opVars, subVars>>

CanRequest(r, l) ==
  /\ pc[r] = "idle"
  /\ FirstFree(r)
  /\ l < nextHashesChildKey

\* variant of the request handler that attaches the hash before it looks at
\* forward
RequestHashingFirst(r, l, d, fo) ==
  LET g == getQueryHash(hashes, l, d, "return") IN
  /\ CanRequest(r, l)
  /\ pc' = [pc EXCEPT ![r] = "threw"]
  /\ link' = [link EXCEPT ![r] = l]
  /\ query' = [query EXCEPT ![r] = d]
  /\ givenFetchOptions' = [givenFetchOptions EXCEPT ![r] = fo]
  /\ context' = [context EXCEPT ![r].fetchOptions = fo]
  /\ hashes' = g.hashes
  /\ generateHashCalls' =
       [generateHashCalls EXCEPT ![r] = IF g.called THEN 1 ELSE 0]
  /\ persistedQuery' =
       [persistedQuery EXCEPT
          ![r] = [version |-> VERSION, sha256Hash |-> g.value]]
  /\ UNCHANGED <<nextHashesChildKey, useGETForHashedQueries, customDisable,
                 supportsPersistedQueries, hashError, subVars>>

\* new ApolloLink((operation, forward) => ...) called without a next link
RequestNoForward(r, l, d, fo) ==
  /\ CanRequest(r, l)
  /\ pc' = [pc EXCEPT ![r] = "threw"]
  /\ link' = [link EXCEPT ![r] = l]
  /\ query' = [query EXCEPT ![r] = d]
  /\ givenFetchOptions' = [givenFetchOptions EXCEPT ![r] = fo]
  /\ context' = [context EXCEPT ![r].fetchOptions = fo]
  /\ UNCHANGED <<linkVars, persistedQuery, hashError, generateHashCalls,
                 subVars>>

\* the request handler of the link, up to returning the observable, for an
\* operation with document d and fetchOptions fo in its context
Request(r, l, d, fo, h) ==
  /\ CanRequest(r, l)
  /\ pc' = [pc EXCEPT ![r] = "invoked"]
  /\ link' = [link EXCEPT ![r] = l]
  /\ query' = [query EXCEPT ![r] = d]
  /\ givenFetchOptions' = [givenFetchOptions EXCEPT ![r] = fo]
  /\ context' = [context EXCEPT ![r].fetchOptions = fo]
  /\ IF supportsPersistedQueries[l]
     THEN LET g == getQueryHash(hashes, l, d, h) IN
          /\ hashes' = g.hashes
          /\ generateHashCalls' =
               IF g.called
               THEN [generateHashCalls EXCEPT ![r] = @ + 1]
               ELSE generateHashCalls
          /\ IF g.thrown = ""
             THEN /\ persistedQuery' =
                       [persistedQuery EXCEPT
                          ![r] = [version |-> VERSION, sha256Hash |-> g.value]]
                  /\ UNCHANGED hashError
             ELSE /\ hashError' = [hashError EXCEPT ![r] = Thrown(g.thrown)]
                  /\ UNCHANGED persistedQuery
     ELSE UNCHANGED <<hashes, generateHashCalls, persistedQuery, hashError>>
  /\ UNCHANGED <<nextHashesChildKey, useGETForHashedQueries, customDisable,
                 supportsPersistedQueries, subVars>>

\* the caller subscribes to the observable: the subscriber function, up to the
\* call forward(operation).subscribe(handler)
Subscribe(r) ==
  LET l == link[r]
      supports == supportsPersistedQueries[l]
      ctx1 == [context[r] EXCEPT !.http = TRUE,
                                 !.includeQuery = ~supports,
                                 !.includeExtensions = supports]
      get == /\ useGETForHashedQueries[l]
             /\ supports
             /\ operationIsQuery(query[r])
      ctx2 == IF get
              THEN [ctx1 EXCEPT !.fetchOptions = ForceGET(WithDefault(@))]
              ELSE ctx1
  IN
  /\ pc[r] = "invoked"
  /\ IF Truthy(hashError[r])
     THEN /\ received' =
               [received EXCEPT
                  ![r] = Deliver(@, closed[r],
                                 Event("error", 0, NoErrors, hashError[r]))]
          /\ closed' = [closed EXCEPT ![r] = TRUE]
          /\ pc' = [pc EXCEPT ![r] = "ready"]
          /\ UNCHANGED <<context, originalFetchOptions, setFetchOptions,
                         forwards>>
     ELSE /\ context' = [context EXCEPT ![r] = ctx2]
          /\ originalFetchOptions' =
               IF get
               THEN [originalFetchOptions EXCEPT
                       ![r] = WithDefault(ctx1.fetchOptions)]
               ELSE originalFetchOptions
          /\ setFetchOptions' =
               IF get THEN [setFetchOptions EXCEPT ![r] = TRUE]
               ELSE setFetchOptions
          /\ forwards' =
               [forwards EXCEPT
                  ![r] = Append(@, Attempt(ctx2, persistedQuery[r], NoCause))]
          /\ pc' = [pc EXCEPT ![r] = "subscribing"]
          /\ UNCHANGED <<received, closed>>
  /\ UNCHANGED <<linkVars, link, query, givenFetchOptions, persistedQuery,
                 hashError, generateHashCalls, subscription, retried>>

\* forward(operation).subscribe(handler) returns: line 221 assigns
\* subscription and the subscriber function returns the cleanup function,
\* which runs at once when the caller's subscription is closed already
SubscribeReturn(r) ==
  /\ pc[r] = "subscribing"
  /\ pc' = [pc EXCEPT ![r] = "ready"]
  /\ subscription' = [subscription EXCEPT ![r] = 1]
  /\ forwards' =
       IF closed[r] THEN [forwards EXCEPT ![r] = Cleanup(@, 1)] ELSE forwards
  /\ UNCHANGED <<linkVars, opVars, retried, originalFetchOptions,
                 setFetchOptions, closed, received>>

\* the caller unsubscribes
Unsubscribe(r) ==
  /\ pc[r] = "ready"
  /\ ~closed[r]
  /\ closed' = [closed EXCEPT ![r] = TRUE]
  /\ forwards' = [forwards EXCEPT ![r] = Cleanup(@, subscription[r])]
  /\ UNCHANGED <<linkVars, pc, opVars, subscription, retried,
                 originalFetchOptions, setFetchOptions, received>>

\* what the downstream link does to attempt k when it delivers outcome o
Delivered(fw, k, o) ==
  [fw EXCEPT ![k].n = @ + 1,
             ![k].st = IF o.type = "next" THEN @ ELSE "ended"]

CanDeliver(r, k) ==
  /\ pc[r] \in {"subscribing", "ready"}
  /\ k \in DOMAIN forwards[r]
  /\ forwards[r][k].st = "active"

\* retry({response} or {networkError}, cb) for outcome o of attempt k, the
\* downstream link having left status s in the context; b is the answer of a
\* caller-supplied disable
retry(r, k, o, s, b) ==
  LET l == link[r]
      fw0 == Delivered(forwards[r], k, o)
      classify == Classify(retried[r], o)
      answer == Disable(customDisable[l], b, GraphQLErrors(o), s)
      supports == IF classify THEN ~answer ELSE supportsPersistedQueries[l]
      again == classify /\ ShouldRetry(o, supports)
  IN
  /\ retried' = [retried EXCEPT ![r] = @ \/ classify]
  /\ received' =
       [received EXCEPT
          ![r] = Callback(@, closed[r], again, Event(o.type, k, o.errors, ""))]
  /\ supportsPersistedQueries' =
       [supportsPersistedQueries EXCEPT ![l] = supports]
  /\ IF again
     THEN LET fw1 == UnsubscribeAttempt(fw0, subscription[r])
              ctx1 == RetryContext(context[r], supports)
              ctx2 == RestoreFetchOptions(ctx1, setFetchOptions[r],
                                          originalFetchOptions[r])
              cause == [type |-> o.type, errors |-> o.errors, status |-> s]
          IN
          /\ context' = [context EXCEPT ![r] = ctx2]
          /\ forwards' =
               [forwards EXCEPT
                  ![r] = Append(fw1, Attempt(ctx2, persistedQuery[r], cause))]
          /\ subscription' = [subscription EXCEPT ![r] = Len(fw1) + 1]
          /\ UNCHANGED closed
     ELSE \* cb(): observer.next(response) or observer.error(networkError)
          /\ closed' = [closed EXCEPT ![r] = @ \/ o.type = "error"]
          /\ forwards' =
               [forwards EXCEPT
                  ![r] = IF o.type = "error" /\ ~closed[r] /\ pc[r] = "ready"
                         THEN Cleanup(fw0, subscription[r])
                         ELSE fw0]
          /\ UNCHANGED <<subscription, context>>
  /\ UNCHANGED <<nextHashesChildKey, useGETForHashedQueries, customDisable,
                 hashes, pc, link, query, givenFetchOptions, persistedQuery,
                 hashError, generateHashCalls, originalFetchOptions,
                 setFetchOptions>>

\* handler.next(response): attempt k delivers a result
HandlerNext(r, k, errors, s, b) ==
  /\ CanDeliver(r, k)
  /\ retry(r, k, [type |-> "next", errors |-> errors], s, b)

\* handler.error(networkError): attempt k fails
HandlerError(r, k, errors, s, b) ==
  /\ CanDeliver(r, k)
  /\ retry(r, k, [type |-> "error", errors |-> errors], s, b)

\* handler.complete: observer.complete.bind(observer)
HandlerComplete(r, k) ==
  LET o == [type |-> "complete", errors |-> NoErrors]
      fw0 == Delivered(forwards[r], k, o)
  IN
  /\ CanDeliver(r, k)
  /\ received' =
       [received EXCEPT
          ![r] = Deliver(@, closed[r], Event("complete", k, NoErrors, ""))]
  /\ closed' = [closed EXCEPT ![r] = TRUE]
  /\ forwards' =
       [forwards EXCEPT
          ![r] = IF ~closed[r] /\ pc[r] = "ready"
                 THEN Cleanup(fw0, subscription[r])
                 ELSE fw0]
  /\ UNCHANGED <<linkVars, pc, opVars, subscription, retried,
                 originalFetchOptions, setFetchOptions>>

\* no request after r is in flight
LastInFlight(r) == \A q \in Reqs : q > r => pc[q] = "idle"

\* the logical request is over for the caller, who drops the operation; the
\* requests are dropped last first, so that the requests in flight are 1..n
Forget(r) ==
  /\ pc[r] = "threw" \/ (pc[r] = "ready" /\ closed[r])
  /\ LastInFlight(r)
  /\ pc' = [pc EXCEPT ![r] = "idle"]
  /\ link' = [link EXCEPT ![r] = 0]
  /\ query' = [query EXCEPT ![r] = "query"]
  /\ givenFetchOptions' = [givenFetchOptions EXCEPT ![r] = NoFetchOptions]
  /\ persistedQuery' = [persistedQuery EXCEPT ![r] = NoPersistedQuery]
  /\ context' = [context EXCEPT ![r] = NoContext]
  /\ hashError' = [hashError EXCEPT ![r] = "undefined"]
  /\ generateHashCalls' = [generateHashCalls EXCEPT ![r] = 0]
  /\ subscription' = [subscription EXCEPT ![r] = 0]
  /\ retried' = [retried EXCEPT ![r] = FALSE]
  /\ originalFetchOptions' =
       [originalFetchOptions EXCEPT ![r] = NoFetchOptions]
  /\ setFetchOptions' = [setFetchOptions EXCEPT ![r] = FALSE]
  /\ closed' = [closed EXCEPT ![r] = FALSE]
  /\ forwards' = [forwards EXCEPT ![r] = <<>>]
  /\ received' = [received EXCEPT ![r] = <<>>]
  /\ UNCHANGED linkVars

\* the fetchOptions of the operations passed to link l with document d: the
\* link reads them only to force the method of such an operation to GET
FetchOptionsFor(l, d) ==
  IF useGETForHashedQueries[l] /\ operationIsQuery(d)
  THEN CallerFetchOptions
  ELSE {NoFetchOptions}

Next ==
  \/ \E options \in LinkOptions :
        Within(3) /\ createPersistedQueryLink(options)
  \/ \E r \in Reqs, l \in Links, d \in Docs :
        Within(6) /\ RequestNoForward(r, l, d, NoFetchOptions)
  \/ \E r \in Reqs, l \in Links, d \in Docs :
        \E fo \in FetchOptionsFor(l, d), h \in HashOutcomes :
           Within(6) /\ Request(r, l, d, fo, h)
  \/ \E r \in Reqs : Subscribe(r)
  \/ \E r \in Reqs : SubscribeReturn(r)
  \/ \E r \in Reqs : Unsubscribe(r)
  \/ \E r \in Reqs : \E k \in DOMAIN forwards[r], e \in ResultErrors,
        s \in ResultStatuses, b \in BOOLEAN :
          Within(2) /\ HandlerNext(r, k, e, s, b)
  \/ \E r \in Reqs : \E k \in DOMAIN forwards[r], e \in NetworkResultErrors,
        s \in ErrorStatuses, b \in BOOLEAN :
          Within(2) /\ HandlerError(r, k, e, s, b)
  \/ \E r \in Reqs : \E k \in DOMAIN forwards[r] :
        Within(2) /\ HandlerComplete(r, k)
  \/ \E r \in Reqs : Forget(r)

Spec == Init /\ [][Next]_vars

\* ------------------------------------- several requests through one link
\* createPersistedQueryLink()
DefaultOptions == [useGETForHashedQueries |-> FALSE, customDisable |-> FALSE]

\* the outcomes of the scenarios of several requests: the results and the
\* statuses of the failures the classification tells apart
SomeResultErrors == {NoErrors, Errs({NotFound}), Errs({"not logged in"})}
SomeErrorStatuses == {400, 404}
\* generateHash returns, or throws an Error
SomeHashOutcomes == {"return", "throw Error"}

\* the size of such a scenario: a request in flight weighs four, an outcome
\* delivered to a request in flight three
Load == 4 * InFlight + 3 * TotalOuts(NumReqs)

Fits(w) == Load + w <= MaxLoad

\* the requests go through the one link createPersistedQueryLink() made, with
\* the same document, in any interleaving
OneLinkNext ==
  \/ nextHashesChildKey = 0 /\ createPersistedQueryLink(DefaultOptions)
  \/ \E r \in Reqs :
        Fits(4) /\ RequestNoForward(r, 0, "query", NoFetchOptions)
  \/ \E r \in Reqs, h \in SomeHashOutcomes :
        Fits(4) /\ Request(r, 0, "query", NoFetchOptions, h)
  \/ \E r \in Reqs : Subscribe(r)
  \/ \E r \in Reqs : SubscribeReturn(r)
  \/ \E r \in Reqs : Unsubscribe(r)
  \/ \E r \in Reqs : \E k \in DOMAIN forwards[r], e \in SomeResultErrors :
        Fits(3) /\ HandlerNext(r, k, e, 200, FALSE)
  \/ \E r \in Reqs : \E k \in DOMAIN forwards[r], s \in SomeErrorStatuses :
        Fits(3) /\ HandlerError(r, k, NoErrors, s, FALSE)
  \/ \E r \in Reqs : \E k \in DOMAIN forwards[r] :
        Fits(3) /\ HandlerComplete(r, k)
  \/ \E r \in Reqs : Forget(r)

OneLinkSpec == Init /\ [][OneLinkNext]_vars

\* --------------------------------------- callers that never unsubscribe
\* the downstream link ends attempt k of request r: handler.error or
\* handler.complete
End(r, k) ==
  \/ \E s \in SomeErrorStatuses : HandlerError(r, k, NoErrors, s, FALSE)
  \/ HandlerComplete(r, k)

\* the downstream link ends an attempt of request r
EndSome(r) == \E k \in DOMAIN forwards[r] : End(r, k)

\* as OneLinkNext, but the caller makes one request at a time and never
\* unsubscribes, and an attempt can be ended whatever the size of the scenario
LiveNext ==
  \/ nextHashesChildKey = 0 /\ createPersistedQueryLink(DefaultOptions)
  \/ \E r \in Reqs, h \in SomeHashOutcomes :
        InFlight = 0 /\ Request(r, 0, "query", NoFetchOptions, h)
  \/ \E r \in Reqs : Subscribe(r)
  \/ \E r \in Reqs : SubscribeReturn(r)
  \/ \E r \in Reqs : \E k \in DOMAIN forwards[r], e \in SomeResultErrors :
        Fits(3) /\ HandlerNext(r, k, e, 200, FALSE)
  \/ \E r \in Reqs : EndSome(r)
  \/ \E r \in Reqs : Forget(r)

\* subscribe returns, and the downstream link ends every attempt that stays
\* subscribed
LiveSpec ==
  /\ Init
  /\ [][LiveNext]_vars
  /\ \A r \in Reqs : WF_vars(SubscribeReturn(r)) /\ WF_vars(EndSome(r))

\* ----------------------------------------------------------- properties
\* a hash-only attempt, and an attempt with the full document and no extensions
HashOnly(a) == a.includeQuery = FALSE /\ a.includeExtensions = TRUE
FullNoExtensions(a) == a.includeQuery = TRUE /\ a.includeExtensions = FALSE

\* the data result of attempt k, as the caller's observer receives it
Data(k) == Event("next", k, NoErrors, "")

\* request r has forwarded a hash-only attempt 1, which has no outcome yet
AwaitsFirst(r) ==
  /\ pc[r] \in {"subscribing", "ready"}
  /\ Len(forwards[r]) = 1
  /\ HashOnly(forwards[r][1])
  /\ forwards[r][1].n = 0

\* request r forwarded attempt 2 on the one outcome of its hash-only attempt
\* 1, attempt 2 has no outcome yet and the caller is still subscribed
AwaitsSecond(r) ==
  /\ pc[r] \in {"subscribing", "ready"}
  /\ Len(forwards[r]) = 2
  /\ HashOnly(forwards[r][1])
  /\ forwards[r][1].n = 1
  /\ forwards[r][2].n = 0
  /\ ~closed[r]

HasMessage(errors, m) == errors.defined /\ m \in errors.msgs

NotFoundStep(r) ==
  /\ \A e \in ResultErrors, s \in ResultStatuses, b \in BOOLEAN :
       (AwaitsFirst(r) /\ HasMessage(e, NotFound) /\ HandlerNext(r, 1, e, s, b))
       => /\ Len(forwards'[r]) = 2
          /\ forwards'[r][2].includeQuery = TRUE
          /\ received'[r] = <<>>
  /\ \A s \in ResultStatuses, b \in BOOLEAN :
       (/\ AwaitsSecond(r)
        /\ forwards[r][2].cause.type = "next"
        /\ HasMessage(forwards[r][2].cause.errors, NotFound)
        /\ HandlerNext(r, 2, NoErrors, s, b))
       => /\ Len(forwards'[r]) = 2
          /\ received'[r] = <<Data(2)>>

\* C1: when the hash-only attempt 1 of a request yields a result with an error
\* PersistedQueryNotFound (alone or with other errors), the operation is
\* forwarded a second time with includeQuery = true and nothing reaches the
\* caller; when attempt 2 then yields a data result, there are exactly two
\* forwards and the caller has received exactly that result.
NotFoundRetriesWithQuery == [][\A r \in Reqs : NotFoundStep(r)]_vars

NotFoundRetried ==
  \E r \in Reqs :
    /\ Len(forwards[r]) = 2
    /\ HashOnly(forwards[r][1])
    /\ forwards[r][2].cause.type = "next"
    /\ forwards[r][2].cause.errors = Errs({NotFound, "not logged in"})
    /\ forwards[r][2].includeQuery = TRUE
    /\ received[r] = <<Data(2)>>

\* C2: once the capability flag of a link is 'not supported', no step makes it
\* 'supported' again.
CapabilityLatch ==
  [][\A l \in Links :
       (l < nextHashesChildKey /\ ~supportsPersistedQueries[l])
       => ~supportsPersistedQueries'[l]]_vars

\* the steps of request r, through a link of L, around a result with an error
\* PersistedQueryNotSupported: the result of hash-only attempt 1, the data
\* result of attempt 2, and the first forward of a request made while the
\* capability is 'not supported'
NotSupportedStep(r, L) ==
  /\ \A e \in ResultErrors, s \in ResultStatuses, b \in BOOLEAN :
       (/\ AwaitsFirst(r)
        /\ link[r] \in L
        /\ HasMessage(e, NotSupported)
        /\ HandlerNext(r, 1, e, s, b))
       => /\ Len(forwards'[r]) = 2
          /\ FullNoExtensions(forwards'[r][2])
          /\ ~supportsPersistedQueries'[link[r]]
          /\ received'[r] = <<>>
  /\ \A s \in ResultStatuses, b \in BOOLEAN :
       (/\ AwaitsSecond(r)
        /\ link[r] \in L
        /\ forwards[r][2].cause.type = "next"
        /\ HasMessage(forwards[r][2].cause.errors, NotSupported)
        /\ HandlerNext(r, 2, NoErrors, s, b))
       => /\ Len(forwards'[r]) = 2
          /\ received'[r] = <<Data(2)>>
          /\ supportsPersistedQueries'[link[r]]
               = supportsPersistedQueries[link[r]]
  /\ (/\ ~supportsPersistedQueries[link[r]]
      /\ ~Truthy(hashError[r])
      /\ Subscribe(r))
     => /\ Len(forwards'[r]) = 1
        /\ FullNoExtensions(forwards'[r][1])

DefaultPolicyLinks == {l \in Links : ~customDisable[l]}

\* C3, for the links with the default disable policy: when hash-only attempt
\* 1 yields a result with an error PersistedQueryNotSupported, the capability
\* becomes 'not supported' and the operation is forwarded once more with the
\* full document and no extensions; the data result of attempt 2 reaches the
\* caller, adds no forward and leaves the capability as it is; and a request
\* subscribed to while the capability is 'not supported' is first forwarded
\* with the full document and no extensions.
NotSupportedDisablesByDefault ==
  [][\A r \in Reqs : NotSupportedStep(r, DefaultPolicyLinks)]_vars

NotSupportedRetried ==
  \E r \in Reqs :
    /\ ~customDisable[link[r]]
    /\ Len(forwards[r]) = 2
    /\ HashOnly(forwards[r][1])
    /\ forwards[r][2].cause.type = "next"
    /\ HasMessage(forwards[r][2].cause.errors, NotSupported)
    /\ FullNoExtensions(forwards[r][2])
    /\ ~supportsPersistedQueries[link[r]]
    /\ received[r] = <<Data(2)>>

\* C3 as stated, for every link whatever its disable policy.
NotSupportedDisablesAlways ==
  [][\A r \in Reqs : NotSupportedStep(r, Links)]_vars

FailureStep(r) ==
  \A e \in NetworkResultErrors, s \in ErrorStatuses, b \in BOOLEAN :
    (/\ Len(forwards[r]) = 2
     /\ ~closed[r]
     /\ HandlerError(r, 2, e, s, b))
    => /\ Len(forwards'[r]) = 2
       /\ received'[r] = Append(received[r], Event("error", 2, e, ""))

\* C4: a request is never forwarded more than twice, and a failure of attempt
\* 2 is delivered to the caller (who is still subscribed) without a forward.
AtMostTwoForwards ==
  [][\A r \in Reqs :
       /\ Len(forwards[r]) <= 2
       /\ Len(forwards'[r]) <= 2
       /\ FailureStep(r)]_vars

SecondFailureDelivered ==
  \E r \in Reqs :
    /\ Len(forwards[r]) = 2
    /\ forwards[r][2].cause.type = "error"
    /\ forwards[r][2].cause.status = 400
    /\ received[r] = <<Event("error", 2, NoErrors, "")>>

BadRequestStep(r) ==
  /\ \A e \in NetworkResultErrors, s \in {400, 500}, b \in BOOLEAN :
       (/\ AwaitsFirst(r)
        /\ ~customDisable[link[r]]
        /\ HandlerError(r, 1, e, s, b))
       => /\ ~supportsPersistedQueries'[link[r]]
          /\ Len(forwards'[r]) = 2
          /\ FullNoExtensions(forwards'[r][2])
          /\ received'[r] = <<>>
  /\ \A s \in ResultStatuses, b \in BOOLEAN :
       (/\ AwaitsSecond(r)
        /\ ~customDisable[link[r]]
        /\ forwards[r][2].cause.type = "error"
        /\ forwards[r][2].cause.status \in {400, 500}
        /\ HandlerNext(r, 2, NoErrors, s, b))
       => received'[r] = <<Data(2)>>

\* C5: with the default disable policy, when hash-only attempt 1 fails with a
\* network error and the status of the response in the context is 400 or 500,
\* the capability becomes 'not supported', the operation is forwarded once
\* more with includeQuery = true and includeExtensions = false, and nothing
\* reaches the caller; when attempt 2 then yields a data result, that result
\* is all the caller has received.
BadRequestDisablesAndRetries == [][\A r \in Reqs : BadRequestStep(r)]_vars

BadRequestRetried ==
  \E r \in Reqs :
    /\ ~customDisable[link[r]]
    /\ Len(forwards[r]) = 2
    /\ HashOnly(forwards[r][1])
    /\ forwards[r][2].cause.type = "error"
    /\ forwards[r][2].cause.status = 500
    /\ FullNoExtensions(forwards[r][2])
    /\ ~supportsPersistedQueries[link[r]]
    /\ received[r] = <<Data(2)>>

\* the caller unsubscribed from request r after attempt 1 was forwarded and
\* before any outcome of it
UnsubscribedBeforeOutcome(r) ==
  /\ pc[r] = "ready"
  /\ closed[r]
  /\ Len(forwards[r]) >= 1
  /\ forwards[r][1].n = 0

\* C6: when the caller has unsubscribed after attempt 1 was forwarded and
\* before any outcome of it, the caller has received nothing, and no step of
\* the request delivers anything to the caller or changes what was forwarded
\* (no outcome arrives, no retry is forwarded).
NothingAfterUnsubscribe ==
  [][\A r \in Reqs :
       UnsubscribedBeforeOutcome(r)
       => /\ received[r] = <<>>
          /\ Len(forwards[r]) = 1
          /\ pc'[r] # "idle"
             => (received'[r] = <<>> /\ forwards'[r] = forwards[r])]_vars

UnsubscribedEarly ==
  \E r \in Reqs :
    /\ UnsubscribedBeforeOutcome(r)
    /\ HashOnly(forwards[r][1])
    /\ forwards[r][1].st = "unsubscribed"

\* generateHash raised for the document of request r, which the caller is
\* about to subscribe to
HashRaised(r) == pc[r] = "invoked" /\ hashError[r] # "undefined"

\* C7: when generateHash raised, whatever the value, subscribing delivers
\* that value to the caller as an error, nothing is forwarded and the
\* capability flags are unchanged.
HashErrorIsTerminal ==
  [][\A r \in Reqs :
       (HashRaised(r) /\ Subscribe(r))
       => /\ received'[r] = <<Event("error", 0, NoErrors, hashError[r])>>
          /\ forwards'[r] = <<>>
          /\ supportsPersistedQueries' = supportsPersistedQueries]_vars

\* C8: once a hash is stored for a document and a link, it stays as it is,
\* and a request with that document through that link does not invoke
\* generateHash and, when the capability is 'supported', attaches the stored
\* hash.
HashMemoized ==
  [][\A l \in Links, d \in Docs :
       hashes[d][l] # <<>>
       => /\ hashes'[d][l] = hashes[d][l]
          /\ \A r \in Reqs, h \in HashOutcomes :
               \A fo \in FetchOptionsFor(l, d) :
                 Request(r, l, d, fo, h)
                 => /\ generateHashCalls'[r] = 0
                    /\ supportsPersistedQueries[l]
                       => persistedQuery'[r] =
                            [version |-> VERSION,
                             sha256Hash |-> hashes[d][l]]]_vars

StoredHashReused ==
  \E r \in Reqs :
    /\ pc[r] = "invoked"
    /\ generateHashCalls[r] = 0
    /\ persistedQuery[r].version = VERSION
    /\ persistedQuery[r].sha256Hash = hashes[query[r]][link[r]]

\* C9: when link a has stored its hash of a document and link l has none, a
\* request with that document through l (capability 'supported', generateHash
\* returning) invokes the generateHash of l once and attaches its value, and
\* the hash stored for a is unchanged.
HashesNotShared ==
  [][\A a \in Links, l \in Links, d \in Docs :
       (a # l /\ hashes[d][a] # <<>> /\ hashes[d][l] = <<>>
        /\ supportsPersistedQueries[l])
       => \A r \in Reqs : \A fo \in FetchOptionsFor(l, d) :
            Request(r, l, d, fo, "return")
            => /\ generateHashCalls'[r] = 1
               /\ persistedQuery'[r] =
                    [version |-> VERSION, sha256Hash |-> generateHash(l, d)]
               /\ hashes'[d][a] = hashes[d][a]]_vars

BothLinksHashed ==
  \E r \in Reqs, a \in Links :
    /\ a # link[r]
    /\ pc[r] = "invoked"
    /\ generateHashCalls[r] = 1
    /\ hashes[query[r]][a] = generateHash(a, query[r])
    /\ persistedQuery[r].sha256Hash = generateHash(link[r], query[r])

\* the fetchOptions f are those the caller gave, g, where an absent g reads
\* as the empty object
SameFetchOptions(f, g) == f.method = g.method /\ f.mode = g.mode

\* C10: with useGETForHashedQueries, capability 'supported' and a document
\* without mutation, attempt 1 is forwarded with fetchOptions.method = 'GET';
\* an attempt 2 of such a request is forwarded with the fetchOptions the
\* caller gave and with includeQuery = true.
GETOnlyForHashedAttempt ==
  [][\A r \in Reqs :
       /\ (/\ useGETForHashedQueries[link[r]]
           /\ supportsPersistedQueries[link[r]]
           /\ operationIsQuery(query[r])
           /\ ~Truthy(hashError[r])
           /\ Subscribe(r))
          => /\ Len(forwards'[r]) = 1
             /\ forwards'[r][1].fetchOptions.method = "GET"
       /\ (/\ Len(forwards[r]) = 1
           /\ forwards[r][1].fetchOptions.method = "GET"
           /\ Len(forwards'[r]) = 2)
          => /\ SameFetchOptions(forwards'[r][2].fetchOptions,
                                 givenFetchOptions[r])
             /\ forwards'[r][2].includeQuery = TRUE]_vars

RetriedWithGivenMethod ==
  \E r \in Reqs :
    /\ Len(forwards[r]) = 2
    /\ forwards[r][1].fetchOptions.method = "GET"
    /\ givenFetchOptions[r].method = "POST"
    /\ forwards[r][2].fetchOptions.method = "POST"
    /\ forwards[r][2].includeQuery = TRUE

\* C11: an attempt forwarded with the method GET belongs to a link with
\* useGETForHashedQueries, is hash-only (never includeQuery = true) and is of
\* an operation without a mutation definition. (The callers of the model never
\* ask for GET themselves, so a method GET is one the link forced.)
GETOnlyWhenHashedQuery ==
  \A r \in Reqs : \A k \in DOMAIN forwards[r] :
    forwards[r][k].fetchOptions.method = "GET"
    => /\ useGETForHashedQueries[link[r]]
       /\ HashOnly(forwards[r][k])
       /\ ~definitionIsMutation(query[r])
       /\ k = 1

MutationNotForcedToGET ==
  \E r \in Reqs :
    /\ useGETForHashedQueries[link[r]]
    /\ definitionIsMutation(query[r])
    /\ Len(forwards[r]) = 2
    /\ HashOnly(forwards[r][1])
    /\ forwards[r][1].fetchOptions.method # "GET"

\* C12: every hash-only attempt carries the persistedQuery extension with
\* version 1 and, as sha256Hash, the value the generateHash of the request's
\* link returns for the request's own document.
HashOnlyCarriesOwnHash ==
  \A r \in Reqs : \A k \in DOMAIN forwards[r] :
    HashOnly(forwards[r][k])
    => forwards[r][k].persistedQuery =
         [version |-> VERSION,
          sha256Hash |-> generateHash(link[r], query[r])]

\* the terminal events (error, complete) among the first n events of rcv
RECURSIVE Terminals(_, _)
Terminals(rcv, n) ==
  IF n = 0 THEN 0
  ELSE (IF rcv[n].type \in {"error", "complete"} THEN 1 ELSE 0)
       + Terminals(rcv, n - 1)

AtMostOneTerminal(rcv) ==
  /\ Terminals(rcv, Len(rcv)) <= 1
  /\ \A i \in DOMAIN rcv :
       rcv[i].type \in {"error", "complete"} => i = Len(rcv)

\* C13: the caller of a request receives at most one terminal event (error
\* or complete) and nothing after it, and a step that forwards the operation
\* again (the step of the outcome that triggers the retry) delivers nothing to
\* the caller.
OneTerminalAndSilentRetry ==
  [][\A r \in Reqs :
       /\ AtMostOneTerminal(received[r])
       /\ AtMostOneTerminal(received'[r])
       /\ (Len(forwards[r]) >= 1 /\ Len(forwards'[r]) > Len(forwards[r]))
          => received'[r] = received[r]]_vars

RetriedThenCompleted ==
  \E r \in Reqs :
    /\ Len(forwards[r]) = 2
    /\ forwards[r][1].n = 1
    /\ received[r] = <<Event("complete", 2, NoErrors, "")>>

\* the first error-bearing outcome of a request through a link with a
\* caller-supplied disable, which answers b
CustomClassifiedStep(r, k, b) ==
  /\ \A e \in ResultErrors, s \in ResultStatuses :
       (/\ customDisable[link[r]]
        /\ ~retried[r]
        /\ e.defined
        /\ HandlerNext(r, k, e, s, b))
       => (Len(forwards'[r]) = Len(forwards[r]) + 1
            <=> (NotFound \in e.msgs \/ b))
  /\ \A e \in NetworkResultErrors, s \in ErrorStatuses :
       (/\ customDisable[link[r]]
        /\ ~retried[r]
        /\ HandlerError(r, k, e, s, b))
       => (Len(forwards'[r]) = Len(forwards[r]) + 1 <=> b)

\* C14: on a link with a caller-supplied disable, the outcome that is
\* classified makes the link forward the operation again exactly when it is a
\* result whose errors contain PersistedQueryNotFound or the supplied disable
\* answered true; PersistedQueryNotSupported and the statuses 400 and 500
\* count for nothing by themselves.
CustomDisableReplacesDefault ==
  [][\A r \in Reqs : \A k \in DOMAIN forwards[r], b \in BOOLEAN :
       CustomClassifiedStep(r, k, b)]_vars

CustomDisableDeclined ==
  \E r \in Reqs :
    /\ customDisable[link[r]]
    /\ supportsPersistedQueries[link[r]]
    /\ Len(forwards[r]) = 1
    /\ retried[r]
    /\ ~closed[r]
    /\ received[r] = <<Event("next", 1, Errs({NotSupported}), "")>>

\* what C15 says defaultOptions.disable returns for graphQLErrors g and the
\* status s of the response in the context (0: no response)
DisablesByDefault(g, s) == HasMessage(g, NotSupported) \/ s = 400 \/ s = 500

\* the first error-bearing outcome of a request through a link with the
\* default disable: the flag is written with the negation of its answer
DefaultClassifiedStep(r, k, b) ==
  /\ \A e \in ResultErrors, s \in ResultStatuses :
       (/\ ~customDisable[link[r]]
        /\ ~retried[r]
        /\ e.defined
        /\ HandlerNext(r, k, e, s, b))
       => (supportsPersistedQueries'[link[r]] <=> ~DisablesByDefault(e, s))
  /\ \A e \in NetworkResultErrors, s \in ErrorStatuses :
       (/\ ~customDisable[link[r]]
        /\ ~retried[r]
        /\ HandlerError(r, k, e, s, b))
       => (supportsPersistedQueries'[link[r]]
            <=> ~DisablesByDefault(NoErrors, s))

\* C15: the default disable answers true exactly when the graphQLErrors it
\* is given contain PersistedQueryNotSupported or the status of the response
\* in the context is 400 or 500 (for a network error the graphQLErrors it is
\* given are undefined); the capability flag written from its answer shows it.
DefaultDisableExact ==
  [][\A r \in Reqs : \A k \in DOMAIN forwards[r], b \in BOOLEAN :
       DefaultClassifiedStep(r, k, b)]_vars

DefaultDisableDeclined ==
  \E r \in Reqs :
    /\ ~customDisable[link[r]]
    /\ supportsPersistedQueries[link[r]]
    /\ Len(forwards[r]) = 1
    /\ retried[r]
    /\ ~closed[r]
    /\ received[r] = <<Event("next", 1, Errs({"not logged in"}), "")>>

PolicyDeclines(r, e, s, b) ==
  IF customDisable[link[r]] THEN ~b ELSE ~DisablesByDefault(e, s)

\* C17: a result of attempt 1 whose errors do not contain
\* PersistedQueryNotFound and for which the disable policy answers false is
\* delivered to the caller (who is still subscribed) as it is, and the
\* operation is not forwarded again.
OtherErrorsPassThrough ==
  [][\A r \in Reqs :
       \A e \in ResultErrors, s \in ResultStatuses, b \in BOOLEAN :
         (/\ Len(forwards[r]) = 1
          /\ ~closed[r]
          /\ e.defined
          /\ NotFound \notin e.msgs
          /\ PolicyDeclines(r, e, s, b)
          /\ HandlerNext(r, 1, e, s, b))
         => /\ Len(forwards'[r]) = 1
            /\ received'[r] =
                 Append(received[r], Event("next", 1, e, ""))]_vars

OtherErrorsDelivered ==
  \E r \in Reqs :
    /\ customDisable[link[r]]
    /\ Len(forwards[r]) = 1
    /\ forwards[r][1].n = 1
    /\ forwards[r][1].st = "active"
    /\ received[r] = <<Event("next", 1, Errs({"not logged in"}), "")>>

\* C18: the request handler called without a next link raises its error at
\* once: generateHash is not invoked, the operation keeps its extensions and
\* its context, the table of hashes and the capability flags are unchanged,
\* and nothing is forwarded or delivered.
NoForwardRaisesAtOnce ==
  [][\A r \in Reqs, l \in Links, d \in Docs :
       RequestNoForward(r, l, d, NoFetchOptions)
       => /\ pc'[r] = "threw"
          /\ generateHashCalls'[r] = 0
          /\ persistedQuery'[r] = NoPersistedQuery
          /\ context'[r] = NoContext
          /\ hashes' = hashes
          /\ supportsPersistedQueries' = supportsPersistedQueries
          /\ forwards'[r] = <<>>
          /\ received'[r] = <<>>]_vars

RaisedWithoutForward ==
  \E r \in Reqs :
    /\ pc[r] = "threw"
    /\ supportsPersistedQueries[link[r]]
    /\ hashes[query[r]][link[r]] = <<>>
    /\ generateHashCalls[r] = 0
    /\ persistedQuery[r] = NoPersistedQuery

\* C19: when the outcome that is classified is a network error that carries
\* a result with an errors list, the graphQLErrors of the payload given to
\* disable are that list.
NetworkErrorsReachDisable ==
  [][\A r \in Reqs : \A k \in DOMAIN forwards[r] :
       \A e \in NetworkResultErrors, s \in ErrorStatuses, b \in BOOLEAN :
         (e.defined /\ ~retried[r] /\ HandlerError(r, k, e, s, b))
         => GraphQLErrors([type |-> "error", errors |-> e]) = e]_vars

\* request r has received an outcome from the downstream link
HasOutcome(r) == Outs(forwards[r], Len(forwards[r])) >= 1

\* C20: once a request has received an outcome, no later outcome of it is
\* classified (retried is not set, the capability flag is not written) or
\* makes the link forward the operation again.
OnlyFirstOutcomeClassified ==
  [][\A r \in Reqs : \A k \in DOMAIN forwards[r], b \in BOOLEAN :
       (/\ HasOutcome(r)
        /\ \/ \E e \in ResultErrors, s \in ResultStatuses :
                HandlerNext(r, k, e, s, b)
           \/ \E e \in NetworkResultErrors, s \in ErrorStatuses :
                HandlerError(r, k, e, s, b))
       => /\ retried'[r] = retried[r]
          /\ Len(forwards'[r]) = Len(forwards[r])
          /\ supportsPersistedQueries' = supportsPersistedQueries]_vars

\* the attempts of request r whose downstream subscription is active
ActiveAttempts(r) == {k \in DOMAIN forwards[r] : forwards[r][k].st = "active"}

\* C21: at no time are two downstream subscriptions of one request active:
\* when the operation is forwarded again the subscription of attempt 1 has
\* been unsubscribed (or has ended), whenever the downstream link delivers the
\* outcome of attempt 1, within the call of subscribe or after it.
OneActiveAttempt == \A r \in Reqs : Cardinality(ActiveAttempts(r)) <= 1

\* C22: a caller unsubscribe leaves no downstream subscription of the request
\* active (it unsubscribes the attempt that is active, attempt 2 once the
\* operation was forwarded again), and once the caller's subscription is
\* closed the operation is not forwarded any more, whenever the downstream link
\* delivers its outcomes, within the call of subscribe or after it.
UnsubscribeReachesActiveAttempt ==
  [][\A r \in Reqs :
       /\ Unsubscribe(r) => \A k \in DOMAIN forwards'[r] :
                              forwards'[r][k].st # "active"
       /\ (pc[r] = "ready" /\ closed[r] /\ pc'[r] # "idle")
          => Len(forwards'[r]) = Len(forwards[r])]_vars

\* C23: every attempt forwarded after the first has includeQuery = true and
\* includeExtensions equal to the capability flag as the classification of
\* that step left it: when the flag is 'supported' (a retry caused by
\* PersistedQueryNotFound alone) the attempt carries the extensions with the
\* persistedQuery of attempt 1, and when the flag is 'not supported' (a
\* disable decision) it carries no extensions.
RetryShape ==
  [][\A r \in Reqs :
       (Len(forwards[r]) >= 1 /\ Len(forwards'[r]) = Len(forwards[r]) + 1)
       => LET a == forwards'[r][Len(forwards'[r])]
              supports == supportsPersistedQueries'[link[r]]
          IN /\ a.includeQuery = TRUE
             /\ a.includeExtensions = supports
             /\ a.persistedQuery = forwards[r][1].persistedQuery
             /\ supports => HasNotFound(a.cause)]_vars

RetryCarriesHash ==
  \E r \in Reqs :
    /\ Len(forwards[r]) = 2
    /\ HashOnly(forwards[r][1])
    /\ HasNotFound(forwards[r][2].cause)
    /\ forwards[r][2].includeQuery = TRUE
    /\ forwards[r][2].includeExtensions = TRUE
    /\ forwards[r][2].persistedQuery =
         [version |-> VERSION,
          sha256Hash |-> generateHash(link[r], query[r])]

\* C24: when the caller subscribes and attempt 1 is forwarded, its shape
\* follows the capability flag: 'supported', it is hash-only (includeQuery =
\* false, includeExtensions = true); 'not supported', it has the full document
\* and no extensions, generateHash was not invoked for the request, the
\* operation has no persistedQuery extension and the method is not GET.
FirstShapeFollowsFlag ==
  [][\A r \in Reqs :
       (pc[r] = "invoked" /\ ~Truthy(hashError[r]) /\ Subscribe(r))
       => LET a == forwards'[r][1] IN
          IF supportsPersistedQueries[link[r]]
          THEN HashOnly(a)
          ELSE /\ FullNoExtensions(a)
               /\ generateHashCalls[r] = 0
               /\ persistedQuery[r] = NoPersistedQuery
               /\ a.persistedQuery = NoPersistedQuery
               /\ a.fetchOptions.method # "GET"]_vars

\* the steps of request r once attempt 2 is forwarded: what the caller (still
\* subscribed) receives is an outcome of attempt 2, and each outcome of
\* attempt 2 is received as it is
AfterRetryStep(r) ==
  /\ (pc'[r] # "idle" /\ received'[r] # received[r])
     => /\ Len(received'[r]) = Len(received[r]) + 1
        /\ received'[r][Len(received'[r])].att = 2
  /\ \A e \in ResultErrors, s \in ResultStatuses, b \in BOOLEAN :
       (~closed[r] /\ HandlerNext(r, 2, e, s, b))
       => received'[r] = Append(received[r], Event("next", 2, e, ""))
  /\ \A e \in NetworkResultErrors, s \in ErrorStatuses, b \in BOOLEAN :
       (~closed[r] /\ HandlerError(r, 2, e, s, b))
       => received'[r] = Append(received[r], Event("error", 2, e, ""))
  /\ (~closed[r] /\ HandlerComplete(r, 2))
     => received'[r] = Append(received[r], Event("complete", 2, NoErrors, ""))

\* C25: once attempt 2 is forwarded, the caller receives the outcomes of
\* attempt 2, each as it is and in the order of their delivery, and nothing of
\* attempt 1.
OnlySecondAttemptRelayed ==
  [][\A r \in Reqs : Len(forwards[r]) = 2 => AfterRetryStep(r)]_vars

\* the retry state of request q and what was forwarded and delivered for it
OwnState(q) ==
  <<retried[q], subscription[q], originalFetchOptions[q], setFetchOptions[q],
    context[q], persistedQuery[q], closed[q], forwards[q], received[q]>>

\* an outcome is delivered to the handler of request r in this step
OutcomeStep(r) ==
  /\ pc[r] # "idle"
  /\ pc'[r] # "idle"
  /\ Outs(forwards'[r], Len(forwards[r])) > Outs(forwards[r], Len(forwards[r]))

\* C26: with several requests in flight through one link, an outcome of one
\* request changes nothing of another request (no retry, no unsubscribe, no
\* delivery); what an outcome does to its own request depends on that
\* request's own retried flag: the first outcome with errors of a request is
\* classified, a PersistedQueryNotFound result among them makes the operation
\* be forwarded again, whatever happened to the other requests; and no
\* request is forwarded more than twice.
RequestsDoNotInterfere ==
  [][\A r \in Reqs :
       /\ OutcomeStep(r) => \A q \in Reqs \ {r} : OwnState(q)' = OwnState(q)
       /\ \A k \in DOMAIN forwards[r], e \in SomeResultErrors :
            (e.defined /\ ~retried[r] /\ HandlerNext(r, k, e, 200, FALSE))
            => /\ retried'[r]
               /\ NotFound \in e.msgs => Len(forwards'[r]) = Len(forwards[r]) + 1
       /\ Len(forwards'[r]) <= 2]_vars

BothRetriedInFlight ==
  \E r \in Reqs, q \in Reqs :
    /\ r # q
    /\ pc[r] = "ready" /\ pc[q] = "ready"
    /\ link[r] = link[q]
    /\ Len(forwards[r]) = 2 /\ Len(forwards[q]) = 2
    /\ HasNotFound(forwards[r][2].cause)
    /\ HasNotFound(forwards[q][2].cause)
    /\ ActiveAttempts(r) = {2} /\ ActiveAttempts(q) = {2}

\* the entries of the table of hashes that differ between hs and ht
Differ(hs, ht) == {e \in Docs \X Links : hs[e[1]][e[2]] # ht[e[1]][e[2]]}

\* C27: during a request the capability flag is written at most once (in the
\* step that sets retried, which stays set; no later outcome of the request
\* changes a flag), and the table of hashes gains at most one entry, for the
\* request's document and link, when the request handler runs, and none
\* afterwards.
OneWritePerRequest ==
  [][/\ \A r \in Reqs :
          /\ (retried[r] /\ pc'[r] # "idle") => retried'[r]
          /\ (retried[r] /\ OutcomeStep(r))
             => supportsPersistedQueries' = supportsPersistedQueries
          /\ (~retried[r] /\ OutcomeStep(r) /\ ~retried'[r])
             => supportsPersistedQueries' = supportsPersistedQueries
          /\ (pc[r] = "idle" /\ pc'[r] # "idle")
             => /\ Differ(hashes, hashes') \subseteq {<<query'[r], link'[r]>>}
                /\ \A e \in Differ(hashes, hashes') :
                     hashes[e[1]][e[2]] = <<>>
     /\ (\A r \in Reqs : pc[r] = "idle" => pc'[r] = "idle")
        => hashes' = hashes]_vars

WrittenOnce ==
  \E r \in Reqs :
    /\ retried[r]
    /\ Len(forwards[r]) = 2
    /\ forwards[r][2].cause.type = "error"
    /\ forwards[r][2].st = "ended"
    /\ received[r] = <<Event("error", 2, NoErrors, "")>>
    /\ ~supportsPersistedQueries[link[r]]
    /\ hashes[query[r]][link[r]] = generateHash(link[r], query[r])

\* generateHash failed for request q, which is still in flight
HashFailed(q) == pc[q] # "idle" /\ hashError[q] # "undefined"

\* C28: a request handler whose generateHash throws leaves the table of
\* hashes as it is; a later request with the same document through the same
\* link (capability 'supported', no hash stored since) invokes generateHash
\* again and, when it returns, attaches the new hash; subscribed to with the capability
\* 'supported', that request is forwarded hash-only with that hash.
FailedHashNotStored ==
  [][\A r \in Reqs, l \in Links, d \in Docs :
       /\ \A h \in HashOutcomes \ {"return"} :
            (hashes[d][l] = <<>> /\ supportsPersistedQueries[l]
             /\ Request(r, l, d, NoFetchOptions, h))
            => hashes' = hashes /\ HashFailed(r)'
       /\ (/\ \E q \in Reqs : HashFailed(q) /\ link[q] = l /\ query[q] = d
           /\ hashes[d][l] = <<>>
           /\ supportsPersistedQueries[l]
           /\ Request(r, l, d, NoFetchOptions, "return"))
          => /\ generateHashCalls'[r] = 1
             /\ persistedQuery'[r] =
                  [version |-> VERSION, sha256Hash |-> generateHash(l, d)]
             /\ hashError'[r] = "undefined"
       /\ (/\ pc[r] = "invoked" /\ link[r] = l /\ query[r] = d
           /\ \E q \in Reqs : HashFailed(q) /\ link[q] = l /\ query[q] = d
           /\ generateHashCalls[r] = 1
           /\ ~HashFailed(r)
           /\ supportsPersistedQueries[l]
           /\ Subscribe(r))
          => /\ HashOnly(forwards'[r][1])
             /\ forwards'[r][1].persistedQuery =
                  [version |-> VERSION,
                   sha256Hash |-> generateHash(l, d)]]_vars

HashedAfterFailure ==
  \E r \in Reqs, q \in Reqs :
    /\ q < r
    /\ HashFailed(q)
    /\ pc[r] = "subscribing"
    /\ link[r] = link[q] /\ query[r] = query[q]
    /\ generateHashCalls[q] = 1
    /\ generateHashCalls[r] = 1
    /\ HashOnly(forwards[r][1])
    /\ forwards[r][1].persistedQuery.sha256Hash =
         generateHash(link[r], query[r])

\* the caller of request r has received a terminal event
HasTerminal(r) == Terminals(received[r], Len(received[r])) >= 1

\* C29: when the caller never unsubscribes and the downstream link ends every
\* attempt that stays subscribed, a request that was forwarded leads to a
\* terminal event (error or complete) at the caller, retried or not.
TerminalEventually ==
  \A r \in Reqs : (Len(forwards[r]) >= 1) ~> HasTerminal(r)

RetriedThenDataThenComplete ==
  \E r \in Reqs :
    /\ Len(forwards[r]) = 2
    /\ HasNotFound(forwards[r][2].cause)
    /\ forwards[r][1].st = "unsubscribed"
    /\ received[r] = <<Data(2), Event("complete", 2, NoErrors, "")>>

\* attempt a identifies its query: it includes the document, or it includes
\* the extensions and they hold a persistedQuery hash
IdentifiesQuery(a) ==
  \/ a.includeQuery = TRUE
  \/ a.includeExtensions = TRUE /\ a.persistedQuery.sha256Hash # <<>>

\* C30: every attempt forwarded identifies its query, in every interleaving
\* of several requests through one link, the capability flag changing between
\* the invocation of the handler and the subscription included.
EveryAttemptIdentifiesQuery ==
  \A r \in Reqs : \A k \in DOMAIN forwards[r] : IdentifiesQuery(forwards[r][k])

\* the disable policy of the link of request r answers true for graphQLErrors
\* g and status s (b: the answer of a caller-supplied disable)
PolicyDisables(r, g, s, b) ==
  IF customDisable[link[r]] THEN b ELSE DisablesByDefault(g, s)

\* request r was first forwarded with the full document and no extensions,
\* and no outcome of it has been classified
FullFirstUnclassified(r) ==
  /\ Len(forwards[r]) = 1
  /\ FullNoExtensions(forwards[r][1])
  /\ ~retried[r]

\* C31: when attempt 1 of a request was forwarded with the full document and
\* no extensions (the capability was 'not supported' already) and its first
\* outcome with errors makes disable answer true, the operation is forwarded
\* a second time, again with includeQuery = true and includeExtensions =
\* false, and nothing reaches the caller; mutations included.
FullAttemptRetriedOnDisable ==
  [][\A r \in Reqs :
       /\ \A e \in ResultErrors, s \in ResultStatuses, b \in BOOLEAN :
            (/\ FullFirstUnclassified(r)
             /\ e.defined
             /\ PolicyDisables(r, e, s, b)
             /\ HandlerNext(r, 1, e, s, b))
            => /\ Len(forwards'[r]) = 2
               /\ FullNoExtensions(forwards'[r][2])
               /\ received'[r] = received[r]
       /\ \A e \in NetworkResultErrors, s \in ErrorStatuses, b \in BOOLEAN :
            (/\ FullFirstUnclassified(r)
             /\ PolicyDisables(r, NoErrors, s, b)
             /\ HandlerError(r, 1, e, s, b))
            => /\ Len(forwards'[r]) = 2
               /\ FullNoExtensions(forwards'[r][2])
               /\ received'[r] = received[r]]_vars

FullMutationRetried ==
  \E r \in Reqs :
    /\ definitionIsMutation(query[r])
    /\ ~customDisable[link[r]]
    /\ Len(forwards[r]) = 2
    /\ FullNoExtensions(forwards[r][1])
    /\ forwards[r][1].persistedQuery = NoPersistedQuery
    /\ forwards[r][2].cause.type = "error"
    /\ forwards[r][2].cause.status = 500
    /\ FullNoExtensions(forwards[r][2])
    /\ received[r] = <<>>

\* the step leaves the capability flags, the table of hashes and the retried
\* flag of request r (disable is not invoked) as they are, and forwards
\* nothing
PassedOn(r) ==
  /\ supportsPersistedQueries' = supportsPersistedQueries
  /\ hashes' = hashes
  /\ retried'[r] = retried[r]
  /\ Len(forwards'[r]) = Len(forwards[r])

\* C32: a data result without errors, and a completion, of an attempt of a
\* request whose caller is subscribed are passed to the caller as they are;
\* disable is not invoked, the capability flags and the table of hashes do
\* not change and nothing is forwarded.
DataAndCompletionPassThrough ==
  [][\A r \in Reqs : \A k \in DOMAIN forwards[r] :
       /\ \A s \in ResultStatuses, b \in BOOLEAN :
            (~closed[r] /\ HandlerNext(r, k, NoErrors, s, b))
            => /\ received'[r] = Append(received[r], Data(k))
               /\ PassedOn(r)
       /\ (~closed[r] /\ HandlerComplete(r, k))
          => /\ received'[r] =
                  Append(received[r], Event("complete", k, NoErrors, ""))
             /\ PassedOn(r)]_vars

DataThenCompleted ==
  \E r \in Reqs :
    /\ customDisable[link[r]]
    /\ supportsPersistedQueries[link[r]]
    /\ ~retried[r]
    /\ Len(forwards[r]) = 1
    /\ HashOnly(forwards[r][1])
    /\ received[r] = <<Data(1), Event("complete", 1, NoErrors, "")>>

====
